---- MODULE Spec2Model ----
(***************************************************************************)
(* A model of the ride-sharing simulation: the Dispatcher                  *)
(* (src/dispatcher.py), the actors (src/driver.py, src/rider.py,           *)
(* src/location.py) and the events (src/event.py).                         *)
(*                                                                         *)
(* Three specifications share the variables:                               *)
(*   SpecDisp  the Dispatcher's methods, called in any order with any      *)
(*             driver and any rider;                                       *)
(*   Spec      the events' do() methods, called on one dispatcher with any *)
(*             timestamp, rider and driver: the events a caller builds     *)
(*             and the events an earlier do() returned;                    *)
(*   SpecSim   the simulation loop of the specification's section 4.3 (the *)
(*             loop and its priority queue are not in the source files):   *)
(*             seed events in any order, then pop, do(), push.             *)
(* An exception that a method raises is caught nowhere in the source: it   *)
(* ends the run (`failure`).                                               *)
(*                                                                         *)
(* Objects are compared as Python compares them here: Rider defines no     *)
(* __eq__ and Driver.__eq__ returns None (falsy), so `in` and list.remove  *)
(* find an object by identity.  An object is named by a string.            *)
(***************************************************************************)
EXTENDS Integers, Sequences, FiniteSets, TLC

\* ---------------------------------------------------------------- bounds
MaxTime == 1        \* events have timestamps 0..MaxTime when they are built
MaxSpeed == 2       \* drivers have speed 1..MaxSpeed
MaxList == 2        \* SpecDisp: a list is not appended to beyond this length

Riders == {"r1", "r2"}
Drivers == {"d1", "d2"}

\* Python's None, where an object reference is expected.
None == "None"
\* Python's None, where a Location is expected.
NoLoc == <<>>

WAITING == "waiting"
CANCELLED == "cancelled"
SATISFIED == "satisfied"
\* monitor.CANCEL, the event kind that Pickup.do compares the status with.
CANCEL == "cancel"
\* The monitor's other constants: the actor kinds and the event kinds.
RIDER == "rider"
DRIVER == "driver"
REQUEST == "request"
PICKUP == "pickup"
DROPOFF == "dropoff"

Abs(x) == IF x < 0 THEN -x ELSE x

\* The riders: where each is, where each wants to go and how long each waits.
RiderLocation == [r \in Riders |-> IF r = "r1" THEN <<0, 0>> ELSE <<1, 2>>]
RiderDestination == [r \in Riders |-> IF r = "r1" THEN <<0, 3>> ELSE <<1, 0>>]
RiderPatience == [r \in Riders |-> IF r = "r1" THEN 1 ELSE 0]
\* The drivers: where each starts.
DriverLocation == [d \in Drivers |-> IF d = "d1" THEN <<0, 3>> ELSE <<1, 0>>]

VARIABLES
    riders,           \* Rider objects: [status, location, destination, patience]
    drivers,          \* Driver objects: [location, speed, destination]
    driverFleet,      \* Dispatcher.driverFleet
    availableDriver,  \* Dispatcher.availableDriver
    waitingList,      \* Dispatcher.waitingList
    last,             \* the last call: method or event, arguments, result
    failure,          \* "" or the exception that ended the run
    queue,            \* SpecSim: the pending events, the next one first
    inserted          \* SpecSim: how many events were put in the queue so far

vars == <<riders, drivers, driverFleet, availableDriver, waitingList, last, failure,
          queue, inserted>>

\* ------------------------------------------------------- location, driver
manhattan_distance(origin, destination) ==
    Abs(origin[1] - destination[1]) + Abs(origin[2] - destination[2])

\* Location.__str__ is `pass`: it returns None, so str() of a Location raises.
Location_str(location) == None

\* Driver.__str__ formats self.location: "" when it returns a string, or the
\* exception.  (A location that is None formats as 'None'.)
Driver_str_raises(d) ==
    IF drivers[d].location # NoLoc /\ Location_str(drivers[d].location) = None
    THEN "TypeError" ELSE ""

\* Driver.get_travel_time: "" when it returns, or the exception
\* (manhattan_distance reads origin.row of a location that is None).
get_travel_time_raises(d) ==
    IF drivers[d].location = NoLoc THEN "AttributeError" ELSE ""

get_travel_time(d, destination) ==
    manhattan_distance(drivers[d].location, destination) \div drivers[d].speed

\* Driver.start_drive(location) and Driver.start_ride(rider) set the destination
\* and return the time from the driver's location `from`.
start_time(from, to, speed) == manhattan_distance(from, to) \div speed

\* Driver.end_drive: the driver is where it was heading; the destination stays.
end_drive(driver) == [driver EXCEPT !.location = driver.destination]

\* Driver.end_ride.  (end_ride_keeps_destination is the variant without
\* `self.destination = None`.)
end_ride_keeps_destination(driver) == [driver EXCEPT !.location = driver.destination]

end_ride(driver) == [driver EXCEPT !.location = driver.destination, !.destination = NoLoc]

\* ------------------------------------------------------------- Python lists
Contains(s, x) == \E i \in 1..Len(s) : s[i] = x

Count(s, x) == Cardinality({i \in 1..Len(s) : s[i] = x})

\* list.remove(x): the first occurrence goes (x is in s).
Remove(s, x) ==
    LET i == CHOOSE k \in 1..Len(s) : s[k] = x /\ \A j \in 1..(k - 1) : s[j] # x
    IN  SubSeq(s, 1, i - 1) \o SubSeq(s, i + 1, Len(s))

\* ------------------------------------------------------------- Dispatcher
\* request_driver(rider) on the lists avail and wl: the exception it raises if
\* any, what it returns and the lists after.  With a driver available the loop's
\* first statement is print(nearestDriver, nearestDriver.get_travel_time(...)):
\* the travel time is computed, then print calls Driver.__str__, which raises;
\* the comparison of travel times and `return nearestDriver` are never reached.
\* (request_driver_always_waits is the variant that appends the rider in both
\* branches.)
request_driver_always_waits(avail, wl, rider) ==
    IF avail = <<>>
    THEN [raised |-> "", ret |-> None,
          availableDriver |-> avail, waitingList |-> Append(wl, rider)]
    ELSE [raised |-> IF get_travel_time_raises(avail[1]) # ""
                     THEN get_travel_time_raises(avail[1])
                     ELSE Driver_str_raises(avail[1]),
          ret |-> None,
          availableDriver |-> avail, waitingList |-> Append(wl, rider)]

request_driver(avail, wl, rider) ==
    IF avail = <<>>
    THEN [raised |-> "", ret |-> None,
          availableDriver |-> avail, waitingList |-> Append(wl, rider)]
    ELSE [raised |-> IF get_travel_time_raises(avail[1]) # ""
                     THEN get_travel_time_raises(avail[1])
                     ELSE Driver_str_raises(avail[1]),
          ret |-> None,
          availableDriver |-> avail, waitingList |-> wl]

\* request_rider(driver) on the lists: what it returns and the lists after.
\* (request_rider_reregisters is the variant without the test
\* `driver not in self.driverFleet`.)
request_rider_reregisters(fleet, avail, wl, driver) ==
    [ret |-> IF wl = <<>> THEN None ELSE wl[1],
     driverFleet |-> Append(fleet, driver),
     availableDriver |-> Append(avail, driver),
     waitingList |-> wl]

request_rider(fleet, avail, wl, driver) ==
    [ret |-> IF wl = <<>> THEN None ELSE wl[1],
     driverFleet |-> IF Contains(fleet, driver) THEN fleet ELSE Append(fleet, driver),
     availableDriver |-> IF Contains(fleet, driver) THEN avail ELSE Append(avail, driver),
     waitingList |-> wl]

activateDriver(avail, driver) == Append(avail, driver)

\* deActivateDriver(driver): list.remove raises ValueError when driver is not there.
\* (deActivateDriver_ignores_absent is the variant that tests `driver in` first.)
deActivateDriver_ignores_absent(avail, driver) ==
    IF Contains(avail, driver)
    THEN [raised |-> "", availableDriver |-> Remove(avail, driver)]
    ELSE [raised |-> "", availableDriver |-> avail]

deActivateDriver(avail, driver) ==
    IF Contains(avail, driver)
    THEN [raised |-> "", availableDriver |-> Remove(avail, driver)]
    ELSE [raised |-> "ValueError", availableDriver |-> avail]

cancel_ride(wl, rider) == IF Contains(wl, rider) THEN Remove(wl, rider) ELSE wl

\* ------------------------------------------------------------------ state
NewRider(r) ==
    [status |-> WAITING, location |-> RiderLocation[r],
     destination |-> RiderDestination[r], patience |-> RiderPatience[r]]

NewDriver(d, speed) ==
    [location |-> DriverLocation[d], speed |-> speed, destination |-> NoLoc]

\* What a call leaves in `last`: the method or event type, the event's timestamp,
\* the rider and the driver it is about, what the dispatcher returned, the events
\* do() returned, and the dispatcher's methods that were called.
Did(op, ts, rider, driver, ret, events, calls) ==
    [op |-> op, ts |-> ts, rider |-> rider, driver |-> driver,
     ret |-> ret, events |-> events, calls |-> calls]

NewDispatcher ==
    /\ driverFleet = <<>>
    /\ availableDriver = <<>>
    /\ waitingList = <<>>

\* ------------------------------------------- SpecDisp: the Dispatcher's methods
InitDisp ==
    /\ riders = [r \in Riders |-> NewRider(r)]
    /\ drivers = [d \in Drivers |-> NewDriver(d, 1)]
    /\ NewDispatcher
    /\ last = Did("init", 0, None, None, None, <<>>, <<>>)
    /\ failure = ""
    /\ queue = <<>>
    /\ inserted = 0

CallRequestDriver(r) ==
    LET res == request_driver(availableDriver, waitingList, r) IN
    /\ failure = ""
    /\ UNCHANGED <<queue, inserted>>
    /\ Len(res.waitingList) <= MaxList
    /\ availableDriver' = res.availableDriver
    /\ waitingList' = res.waitingList
    /\ last' = Did("request_driver", 0, r, None, res.ret, <<>>, <<>>)
    /\ failure' = res.raised
    /\ UNCHANGED <<riders, drivers, driverFleet>>

CallRequestRider(d) ==
    LET res == request_rider(driverFleet, availableDriver, waitingList, d) IN
    /\ failure = ""
    /\ UNCHANGED <<queue, inserted>>
    /\ Len(res.availableDriver) <= MaxList
    /\ driverFleet' = res.driverFleet
    /\ availableDriver' = res.availableDriver
    /\ waitingList' = res.waitingList
    /\ last' = Did("request_rider", 0, None, d, res.ret, <<>>, <<>>)
    /\ UNCHANGED <<riders, drivers, failure>>

CallActivateDriver(d) ==
    /\ failure = ""
    /\ UNCHANGED <<queue, inserted>>
    /\ Len(availableDriver) < MaxList
    /\ availableDriver' = activateDriver(availableDriver, d)
    /\ last' = Did("activateDriver", 0, None, d, None, <<>>, <<>>)
    /\ UNCHANGED <<riders, drivers, driverFleet, waitingList, failure>>

CallDeActivateDriver(d) ==
    LET res == deActivateDriver(availableDriver, d) IN
    /\ failure = ""
    /\ UNCHANGED <<queue, inserted>>
    /\ availableDriver' = res.availableDriver
    /\ last' = Did("deActivateDriver", 0, None, d, None, <<>>, <<>>)
    /\ failure' = res.raised
    /\ UNCHANGED <<riders, drivers, driverFleet, waitingList>>

CallCancelRide(r) ==
    /\ failure = ""
    /\ UNCHANGED <<queue, inserted>>
    /\ waitingList' = cancel_ride(waitingList, r)
    /\ last' = Did("cancel_ride", 0, r, None, None, <<>>, <<>>)
    /\ UNCHANGED <<riders, drivers, driverFleet, availableDriver, failure>>

NextDisp ==
    \/ \E r \in Riders : CallRequestDriver(r)
    \/ \E d \in Drivers : CallRequestRider(d)
    \/ \E d \in Drivers : CallActivateDriver(d)
    \/ \E d \in Drivers : CallDeActivateDriver(d)
    \/ \E r \in Riders : CallCancelRide(r)

SpecDisp == InitDisp /\ [][NextDisp]_vars

\* ----------------------------------------------------------------- events
\* The constructors of src/event.py, with their parameters in the source's order.
RiderRequest(timestamp, rider) ==
    [type |-> "RiderRequest", timestamp |-> timestamp, rider |-> rider, driver |-> None]

DriverRequest(timestamp, driver) ==
    [type |-> "DriverRequest", timestamp |-> timestamp, rider |-> None, driver |-> driver]

Cancellation(timestamp, rider) ==
    [type |-> "Cancellation", timestamp |-> timestamp, rider |-> rider, driver |-> None]

Pickup(timestamp, rider, driver) ==
    [type |-> "Pickup", timestamp |-> timestamp, rider |-> rider, driver |-> driver]

Dropoff(timestamp, driver, rider) ==
    [type |-> "Dropoff", timestamp |-> timestamp, rider |-> rider, driver |-> driver]

\* e.do() returned `events`.
Returned(e, ret, events, calls) ==
    /\ last' = Did(e.type, e.timestamp, e.rider, e.driver, ret, events, calls)
    /\ failure' = ""

\* e.do() raised `exception`.
Raised(e, ret, exception, calls) ==
    /\ last' = Did(e.type, e.timestamp, e.rider, e.driver, ret, <<>>, calls)
    /\ failure' = exception

\* The events RiderRequest.do returns: driver is what the dispatcher returned.
\* (RiderRequest_events_from_zero is the variant that counts the patience from
\* time 0, not from the request.)
RiderRequest_events_from_zero(timestamp, rider, driver, travel_time) ==
    (IF driver # None
     THEN <<Pickup(timestamp + travel_time, rider, driver)>> ELSE <<>>)
    \o <<Cancellation(riders[rider].patience, rider)>>

RiderRequest_events(timestamp, rider, driver, travel_time) ==
    (IF driver # None
     THEN <<Pickup(timestamp + travel_time, rider, driver)>> ELSE <<>>)
    \o <<Cancellation(timestamp + riders[rider].patience, rider)>>

\* RiderRequest.do.
RiderRequest_do(e) ==
    LET res == request_driver(availableDriver, waitingList, e.rider)
        driver == res.ret
        travel_time == IF driver = None THEN 0
                       ELSE start_time(drivers[driver].location,
                                       riders[e.rider].location, drivers[driver].speed)
    IN  /\ availableDriver' = res.availableDriver
        /\ waitingList' = res.waitingList
        /\ drivers' = IF driver = None THEN drivers
                      ELSE [drivers EXCEPT ![driver].destination = riders[e.rider].location]
        /\ IF res.raised # ""
           THEN Raised(e, None, res.raised, <<"request_driver">>)
           ELSE Returned(e, driver,
                         RiderRequest_events(e.timestamp, e.rider, driver, travel_time),
                         <<"request_driver">>)
        /\ UNCHANGED <<riders, driverFleet>>

\* The events DriverRequest.do returns: rider is what the dispatcher returned.
\* The source passes (timestamp, self.driver, rider) to Pickup(timestamp, rider, driver).
DriverRequest_events(timestamp, driver, rider, expectedTravelTime) ==
    IF rider # None THEN <<Pickup(expectedTravelTime + timestamp, driver, rider)>>
    ELSE <<>>

\* DriverRequest.do.  start_drive sets the destination, then raises if the
\* driver's location is None.
DriverRequest_do(e) ==
    LET res == request_rider(driverFleet, availableDriver, waitingList, e.driver)
        rider == res.ret
    IN  /\ driverFleet' = res.driverFleet
        /\ availableDriver' = res.availableDriver
        /\ waitingList' = res.waitingList
        /\ drivers' = IF rider = None THEN drivers
                      ELSE [drivers EXCEPT ![e.driver].destination = riders[rider].location]
        /\ IF rider # None /\ get_travel_time_raises(e.driver) # ""
           THEN Raised(e, rider, get_travel_time_raises(e.driver), <<"request_rider">>)
           ELSE Returned(e, rider,
                         DriverRequest_events(e.timestamp, e.driver, rider,
                             IF rider = None THEN 0
                             ELSE start_time(drivers[e.driver].location,
                                             riders[rider].location,
                                             drivers[e.driver].speed)),
                         <<"request_rider">>)
        /\ UNCHANGED riders

\* The status Cancellation.do leaves the rider with.
Cancellation_status(status) == CANCELLED

\* Cancellation.do.
Cancellation_do(e) ==
    /\ waitingList' = cancel_ride(waitingList, e.rider)
    /\ riders' = [riders EXCEPT ![e.rider].status = Cancellation_status(@)]
    /\ Returned(e, None, <<>>, <<"cancel_ride">>)
    /\ UNCHANGED <<drivers, driverFleet, availableDriver>>

\* The events Pickup.do returns, by the rider's status.
Pickup_events(timestamp, rider, driver, status, expectedRideTime) ==
    IF status = WAITING THEN <<Dropoff(timestamp + expectedRideTime, driver, rider)>>
    ELSE IF status = CANCEL THEN <<DriverRequest(timestamp, driver)>>
    ELSE <<>>

\* Pickup.do.  self.driver.end_drive() raises when self.driver is a Rider;
\* start_ride sets the destination, then raises when the location is None.
Pickup_do(e) ==
    IF e.driver \notin Drivers
    THEN /\ Raised(e, None, "AttributeError", <<>>)
         /\ UNCHANGED <<riders, drivers, driverFleet, availableDriver, waitingList>>
    ELSE LET arrived == end_drive(drivers[e.driver])
             status == riders[e.rider].status
             riding == [arrived EXCEPT !.destination = riders[e.rider].destination]
         IN  /\ drivers' = [drivers EXCEPT ![e.driver] =
                                IF status = WAITING THEN riding ELSE arrived]
             /\ IF status = WAITING /\ arrived.location = NoLoc
                THEN Raised(e, None, "AttributeError", <<>>)
                ELSE Returned(e, None,
                              Pickup_events(e.timestamp, e.rider, e.driver, status,
                                  IF status = WAITING
                                  THEN start_time(arrived.location,
                                                  riders[e.rider].destination,
                                                  arrived.speed)
                                  ELSE 0),
                              <<>>)
             /\ UNCHANGED <<riders, driverFleet, availableDriver, waitingList>>

\* Dropoff.do.
Dropoff_do(e) ==
    /\ drivers' = [drivers EXCEPT ![e.driver] = end_ride(@)]
    /\ riders' = [riders EXCEPT ![e.rider].status = SATISFIED]
    /\ Returned(e, None, <<DriverRequest(e.timestamp, e.driver)>>, <<>>)
    /\ UNCHANGED <<driverFleet, availableDriver, waitingList>>

\* One call monitor.notify(timestamp, category, description, identifier, location),
\* without the identifier and the location.
notify(timestamp, category, description) ==
    [timestamp |-> timestamp, category |-> category, description |-> description]

\* The notify calls made by the do() that `did` records.  Each do() notifies
\* first, so also when it raises later; Pickup.do notifies after
\* self.driver.end_drive(), which raises when self.driver is a Rider.
Notified(did) ==
    CASE did.op = "RiderRequest" -> <<notify(did.ts, RIDER, REQUEST)>>
      [] did.op = "DriverRequest" -> <<notify(did.ts, DRIVER, REQUEST)>>
      [] did.op = "Cancellation" -> <<notify(did.ts, RIDER, CANCEL)>>
      [] did.op = "Pickup" -> IF did.driver \in Drivers
                              THEN <<notify(did.ts, RIDER, PICKUP)>> ELSE <<>>
      [] did.op = "Dropoff" -> <<notify(did.ts, RIDER, DROPOFF)>>
      [] OTHER -> <<>>

\* ---------------------------------------------- Spec: the events' do() methods
Init ==
    /\ riders = [r \in Riders |-> NewRider(r)]
    /\ \E speed \in [Drivers -> 1..MaxSpeed] :
           drivers = [d \in Drivers |-> NewDriver(d, speed[d])]
    /\ NewDispatcher
    /\ last = Did("init", 0, None, None, None, <<>>, <<>>)
    /\ failure = ""
    /\ queue = <<>>
    /\ inserted = 0

\* The events the last do() returned.
ReturnedEvents(type) == {last.events[i] : i \in {j \in 1..Len(last.events) :
                                                     last.events[j].type = type}}

\* A RiderRequest is built once for a rider, with the rider WAITING.
DoRiderRequest ==
    /\ failure = ""
    /\ UNCHANGED <<queue, inserted>>
    /\ \E t \in 0..MaxTime, r \in Riders :
           /\ riders[r].status = WAITING
           /\ ~Contains(waitingList, r)
           /\ RiderRequest_do(RiderRequest(t, r))

DoDriverRequest ==
    /\ failure = ""
    /\ UNCHANGED <<queue, inserted>>
    /\ \E e \in {DriverRequest(t, d) : t \in 0..MaxTime, d \in Drivers}
                \cup ReturnedEvents("DriverRequest") :
           DriverRequest_do(e)

DoCancellation ==
    /\ failure = ""
    /\ UNCHANGED <<queue, inserted>>
    /\ \E e \in {Cancellation(t, r) : t \in 0..MaxTime, r \in Riders}
                \cup ReturnedEvents("Cancellation") :
           Cancellation_do(e)

\* A caller's Pickup is for a driver on its way to the rider (end_drive's
\* precondition: the destination is not None).
DoPickup ==
    /\ failure = ""
    /\ UNCHANGED <<queue, inserted>>
    /\ \E e \in {Pickup(t, r, d) : t \in 0..MaxTime, r \in Riders, d \in Drivers}
                \cup ReturnedEvents("Pickup") :
           /\ e.driver \in Drivers =>
                  drivers[e.driver].destination = riders[e.rider].location
           /\ Pickup_do(e)

\* A caller's Dropoff is for a driver on its way to the rider's destination
\* (end_ride's preconditions: the driver has a rider, the destination is not None).
DoDropoff ==
    /\ failure = ""
    /\ UNCHANGED <<queue, inserted>>
    /\ \E e \in {Dropoff(t, d, r) : t \in 0..MaxTime, r \in Riders, d \in Drivers}
                \cup ReturnedEvents("Dropoff") :
           /\ drivers[e.driver].destination = riders[e.rider].destination
           /\ Dropoff_do(e)

Next ==
    \/ DoRiderRequest
    \/ DoDriverRequest
    \/ DoCancellation
    \/ DoPickup
    \/ DoDropoff

Spec == Init /\ [][Next]_vars

\* ------------------------------------------------ SpecSim: the simulation loop
\* Event.__lt__ and Event.__le__: events compare by timestamp.
Event_lt(self, other) == self.timestamp < other.timestamp

Event_le(self, other) == self.timestamp <= other.timestamp

\* The priority queue's add: the n-th inserted event goes behind every queued
\* event that is <= it, so before every event that is later and behind the
\* events of its own timestamp.
PriorityQueue_add(q, item, n) ==
    LET k == Cardinality({i \in 1..Len(q) : Event_le(q[i].event, item)})
    IN  SubSeq(q, 1, k) \o <<[event |-> item, seq |-> n]>> \o SubSeq(q, k + 1, Len(q))

\* The loop's `for event in events: queue.add(event)`; n events were added before.
RECURSIVE AddAll(_, _, _)
AddAll(q, events, n) ==
    IF events = <<>> THEN q
    ELSE AddAll(PriorityQueue_add(q, Head(events), n), Tail(events), n + 1)

\* The seed events the loader builds: a RiderRequest for a new rider, a
\* DriverRequest for a new driver.
SeedEvents ==
    {RiderRequest(t, r) : t \in 0..MaxTime, r \in Riders}
        \cup {DriverRequest(t, d) : t \in 0..MaxTime, d \in Drivers}

\* The rider or driver that a seed event is the request of.
Actor(e) == IF e.type = "RiderRequest" THEN e.rider ELSE e.driver

\* The seed lists: the requests of some riders and drivers, one each, in any order.
SeedLists ==
    {seeds \in UNION {[1..n -> SeedEvents] : n \in 0..Cardinality(Riders \cup Drivers)} :
        \A i, j \in DOMAIN seeds : i # j => Actor(seeds[i]) # Actor(seeds[j])}

InitSim ==
    /\ riders = [r \in Riders |-> NewRider(r)]
    /\ \E speed \in [Drivers -> 1..MaxSpeed] :
           drivers = [d \in Drivers |-> NewDriver(d, speed[d])]
    /\ NewDispatcher
    /\ last = Did("init", 0, None, None, None, <<>>, <<>>)
    /\ failure = ""
    /\ \E seeds \in SeedLists :
           /\ queue = AddAll(<<>>, seeds, 0)
           /\ inserted = Len(seeds)

\* event.do(dispatcher, monitor): the method of the event's class.
Event_do(e) ==
    CASE e.type = "RiderRequest" -> RiderRequest_do(e)
      [] e.type = "DriverRequest" -> DriverRequest_do(e)
      [] e.type = "Cancellation" -> Cancellation_do(e)
      [] e.type = "Pickup" -> Pickup_do(e)
      [] e.type = "Dropoff" -> Dropoff_do(e)

\* One turn of the loop: the first event leaves the queue and is done, and the
\* events it returns are added.  An exception ends the loop.
SimStep ==
    /\ failure = ""
    /\ queue # <<>>
    /\ Event_do(Head(queue).event)
    /\ queue' = AddAll(Tail(queue), last'.events, inserted)
    /\ inserted' = inserted + Len(last'.events)

NextSim == SimStep

SpecSim == InitSim /\ [][NextSim]_vars

\* ------------------------------------------------- the claims, under SpecDisp
\* The step is a call of op (a Dispatcher method or an event's do).
IsCall(op) == last'.op = op

\* C2: no double-booking: a request_driver call made while a driver is available
\* returns a driver, and that driver is then absent from availableDriver.
C2_NoDoubleBooking ==
    [][IsCall("request_driver") /\ availableDriver # <<>> =>
          /\ failure' = ""
          /\ last'.ret \in Drivers
          /\ ~Contains(availableDriver', last'.ret)]_vars

\* C3: request_rider returns the front rider of waitingList and removes it,
\* the other riders keeping their order; with no rider waiting it returns None.
C3_RequestRiderPopsFront ==
    [][IsCall("request_rider") =>
          IF waitingList = <<>>
          THEN last'.ret = None /\ waitingList' = <<>>
          ELSE last'.ret = Head(waitingList) /\ waitingList' = Tail(waitingList)]_vars

\* C4: request_rider leaves availableDriver unchanged in every case: for a new
\* driver and for a registered one, with a rider returned or without.
C4_RequestRiderKeepsAvailable ==
    [][IsCall("request_rider") => availableDriver' = availableDriver]_vars

\* C5: with a driver available, request_driver returns the available driver of
\* minimal travel time to the rider, the earliest in availableDriver among equals,
\* and leaves waitingList unchanged.
C5_NearestDriver ==
    [][IsCall("request_driver") /\ availableDriver # <<>> =>
          LET loc == riders[last'.rider].location IN
          /\ failure' = ""
          /\ \E i \in 1..Len(availableDriver) :
                /\ last'.ret = availableDriver[i]
                /\ \A j \in 1..Len(availableDriver) :
                      get_travel_time(availableDriver[i], loc)
                          <= get_travel_time(availableDriver[j], loc)
                /\ \A j \in 1..(i - 1) :
                      get_travel_time(availableDriver[i], loc)
                          < get_travel_time(availableDriver[j], loc)
          /\ waitingList' = waitingList]_vars

\* C6: with no driver available, request_driver returns None and appends the
\* rider at the end of waitingList, leaving driverFleet and availableDriver
\* unchanged; and waitingList gains a rider only in such a call.
C6_WaitsWhenNoDriver ==
    [][/\ IsCall("request_driver") /\ availableDriver = <<>> =>
             /\ failure' = ""
             /\ last'.ret = None
             /\ waitingList' = Append(waitingList, last'.rider)
             /\ driverFleet' = driverFleet
             /\ availableDriver' = availableDriver
       /\ (\E r \in Riders : Count(waitingList', r) > Count(waitingList, r)) =>
             IsCall("request_driver") /\ availableDriver = <<>>]_vars

\* C6's case: with drivers registered but none available, a second rider was
\* put behind the one already waiting.
C6_Witness ==
    /\ last.op = "request_driver"
    /\ last.ret = None
    /\ failure = ""
    /\ driverFleet # <<>>
    /\ availableDriver = <<>>
    /\ Len(waitingList) = 2
    /\ waitingList[2] = last.rider
    /\ waitingList[1] # last.rider

\* ----------------------------------------------------- the claims, under Spec
\* C1: a rider's status changes only from WAITING, and only to CANCELLED or to
\* SATISFIED: once CANCELLED or SATISFIED, no event changes it.
C1_StatusMonotonic ==
    [][\A r \in Riders :
          riders'[r].status # riders[r].status =>
              /\ riders[r].status = WAITING
              /\ riders'[r].status \in {CANCELLED, SATISFIED}]_vars

\* The rider has been picked up: a driver is on its way to the rider's destination.
Riding(r) == \E d \in Drivers : drivers[d].destination = riders[r].destination

\* C7: a Cancellation of a rider that has been picked up, or is SATISFIED or
\* CANCELLED, changes neither a rider's status nor the dispatcher's lists.
C7_CancellationOnlyWhenWaiting ==
    [][IsCall("Cancellation")
         /\ (riders[last'.rider].status # WAITING \/ Riding(last'.rider)) =>
             /\ riders' = riders
             /\ driverFleet' = driverFleet
             /\ availableDriver' = availableDriver
             /\ waitingList' = waitingList]_vars

\* C8: RiderRequest.do returns exactly one Cancellation, for its rider at
\* timestamp + patience, one Pickup for the rider and the driver at timestamp +
\* travel time iff the dispatcher returned a driver, and no other event.
C8_RiderRequestEvents ==
    last.op = "RiderRequest" =>
        LET ev == last.events
            canc == {i \in 1..Len(ev) : ev[i].type = "Cancellation"}
            pick == {i \in 1..Len(ev) : ev[i].type = "Pickup"}
        IN  /\ Cardinality(canc) = 1
            /\ \A i \in canc :
                  ev[i] = Cancellation(last.ts + riders[last.rider].patience, last.rider)
            /\ Cardinality(pick) = IF last.ret = None THEN 0 ELSE 1
            /\ \A i \in pick :
                  ev[i] = Pickup(last.ts + get_travel_time(last.ret,
                                               riders[last.rider].location),
                                 last.rider, last.ret)
            /\ Len(ev) = Cardinality(canc) + Cardinality(pick)

\* C9: when the dispatcher returns a rider, DriverRequest.do returns exactly one
\* Pickup, at timestamp + travel time from the driver's location to the rider's,
\* whose driver is the requesting driver and whose rider is the returned rider;
\* and the driver's destination is the rider's location.
C9_DriverRequestPickup ==
    last.op = "DriverRequest" /\ last.ret # None =>
        /\ last.events =
              << [type |-> "Pickup",
                  timestamp |-> last.ts + get_travel_time(last.driver,
                                              riders[last.ret].location),
                  rider |-> last.ret,
                  driver |-> last.driver] >>
        /\ drivers[last.driver].destination = riders[last.ret].location

\* C10: with no rider waiting, DriverRequest.do returns no event and
\* leaves the driver in availableDriver exactly once, by a call of activateDriver.
C10_ActivatesIdleDriver ==
    last.op = "DriverRequest" /\ waitingList = <<>> =>
        /\ last.events = <<>>
        /\ Count(availableDriver, last.driver) = 1
        /\ Contains(last.calls, "activateDriver")

\* C11: Pickup.do for a rider and a driver: with the rider WAITING it returns
\* exactly one Dropoff, at timestamp + (distance from the rider's location to its
\* destination) // speed, and the driver's destination is the rider's; with the
\* rider CANCELLED it returns exactly one DriverRequest, for the driver at the
\* same timestamp.
C11_PickupEvents ==
    last.op = "Pickup" /\ last.rider \in Riders /\ last.driver \in Drivers =>
        LET rider == riders[last.rider]
            driver == drivers[last.driver]
        IN  /\ rider.status = WAITING =>
                  /\ last.events =
                        <<Dropoff(last.ts + manhattan_distance(rider.location,
                                                rider.destination) \div driver.speed,
                                  last.driver, last.rider)>>
                  /\ driver.destination = rider.destination
            /\ rider.status = CANCELLED =>
                  last.events = <<DriverRequest(last.ts, last.driver)>>

\* C12: Dropoff.do puts the driver at its former destination, the rider's
\* destination, clears the driver's destination, makes the rider SATISFIED and
\* returns exactly one DriverRequest, for the driver at the same timestamp.
C12_DropoffEffects ==
    [][IsCall("Dropoff") =>
          /\ failure' = ""
          /\ drivers'[last'.driver].location = drivers[last'.driver].destination
          /\ drivers'[last'.driver].location = riders[last'.rider].destination
          /\ drivers'[last'.driver].destination = NoLoc
          /\ riders'[last'.rider].status = SATISFIED
          /\ last'.events = <<DriverRequest(last'.ts, last'.driver)>>]_vars

\* C12's case: a Dropoff at a time after 0 has left its driver, who started
\* elsewhere, at the rider's destination.
C12_Witness ==
    /\ last.op = "Dropoff"
    /\ last.ts > 0
    /\ riders[last.rider].status = SATISFIED
    /\ drivers[last.driver].location = riders[last.rider].destination
    /\ drivers[last.driver].location # DriverLocation[last.driver]
    /\ drivers[last.driver].destination = NoLoc

\* C13: a driver's destination is set by a drive or ride start and None after
\* the matching end: None after the end_drive of a Pickup whose rider is not
\* WAITING (no ride starts), None after the end_ride of a Dropoff, and set after
\* a DriverRequest that got a rider and after a Pickup of a WAITING rider.
C13_DestinationWhileDriving ==
    [][/\ IsCall("Pickup") /\ last'.driver \in Drivers =>
             IF riders[last'.rider].status = WAITING
             THEN drivers'[last'.driver].destination # NoLoc
             ELSE drivers'[last'.driver].destination = NoLoc
       /\ IsCall("Dropoff") => drivers'[last'.driver].destination = NoLoc
       /\ IsCall("DriverRequest") /\ last'.ret # None =>
             drivers'[last'.driver].destination # NoLoc]_vars

\* C15: a rider is in waitingList at most once, and only while WAITING.
C15_WaitingListRiders ==
    \A r \in Riders :
        /\ Count(waitingList, r) <= 1
        /\ Contains(waitingList, r) => riders[r].status = WAITING

\* The kind of record that an event of type op is to give the monitor.
KindOf(op) ==
    CASE op = "Cancellation" -> CANCEL
      [] op = "Pickup" -> PICKUP
      [] op = "Dropoff" -> DROPOFF
      [] OTHER -> REQUEST

\* C18: an executed event makes at most one notify call, with its own timestamp
\* and the kind of the event; and an event that changes neither an actor nor
\* the dispatcher makes no CANCEL, PICKUP or DROPOFF record.
C18_NotifyOncePerChange ==
    [][last'.op \in {"RiderRequest", "DriverRequest", "Cancellation", "Pickup", "Dropoff"} =>
          LET records == Notified(last') IN
          /\ Len(records) <= 1
          /\ \A i \in 1..Len(records) :
                /\ records[i].timestamp = last'.ts
                /\ records[i].description = KindOf(last'.op)
          /\ (/\ riders' = riders /\ drivers' = drivers
              /\ driverFleet' = driverFleet /\ availableDriver' = availableDriver
              /\ waitingList' = waitingList) =>
                \A i \in 1..Len(records) :
                    records[i].description \notin {CANCEL, PICKUP, DROPOFF}]_vars

\* ------------------------------------------ more claims, under SpecDisp
\* C14: every driver in availableDriver is in driverFleet, and none is there
\* more than once.
C14_AvailableDrivers ==
    \A d \in Drivers :
        /\ Contains(availableDriver, d) => Contains(driverFleet, d)
        /\ Count(availableDriver, d) <= 1

C20_DeactivateDriver ==
    [][IsCall("deActivateDriver") =>
          LET at == {i \in 1..Len(availableDriver) : availableDriver[i] = last'.driver}
          IN  /\ driverFleet' = driverFleet
              /\ waitingList' = waitingList
              /\ IF at # {}
                 THEN /\ failure' = ""
                      /\ \E i \in at :
                            /\ \A j \in at : i <= j
                            /\ availableDriver' =
                                  [k \in 1..(Len(availableDriver) - 1) |->
                                      IF k < i THEN availableDriver[k]
                                      ELSE availableDriver[k + 1]]
                 ELSE /\ failure' = "ValueError"
                      /\ availableDriver' = availableDriver]_vars

\* C20's case: a driver that is registered but not available was deactivated,
\* while another driver is available: the call failed.
C20_Witness ==
    /\ last.op = "deActivateDriver"
    /\ failure = "ValueError"
    /\ Contains(driverFleet, last.driver)
    /\ ~Contains(availableDriver, last.driver)
    /\ availableDriver # <<>>

C17_QueueEmpties ==
    failure # "" => queue = <<>>

\* The queued Pickup and Dropoff events that are about actor a: an event is
\* about the objects it holds, whichever of its two fields holds them.
Pending(a) ==
    {i \in 1..Len(queue) :
        /\ queue[i].event.type \in {"Pickup", "Dropoff"}
        /\ a \in {queue[i].event.rider, queue[i].event.driver}}

\* C21: a driver is committed to one rider at most: a driver with a Pickup or a
\* Dropoff pending in the queue is not in availableDriver, and no driver has two
\* such events pending.
C21_DriverCommittedOnce ==
    \A d \in Drivers :
        /\ Cardinality(Pending(d)) <= 1
        /\ Pending(d) # {} => ~Contains(availableDriver, d)

\* C22: a rider is matched to one driver at most: the Pickup events pending for
\* a rider are not for two different drivers, and no rider has two Dropoff
\* events pending.
C22_RiderMatchedOnce ==
    \A r \in Riders :
        /\ Cardinality({d \in Drivers :
               \E i \in Pending(r) \cap Pending(d) :
                   queue[i].event.type = "Pickup"}) <= 1
        /\ Cardinality({i \in Pending(r) : queue[i].event.type = "Dropoff"}) <= 1

\* The RiderRequest of rider r has been executed.  It left r in waitingList with
\* a Cancellation queued, or it raised and was the last event of the run; later r
\* is taken from waitingList only by its Cancellation, which changes its status.
RiderRequested(r) ==
    \/ Contains(waitingList, r)
    \/ riders[r].status # WAITING
    \/ \E i \in 1..Len(queue) : queue[i].event = Cancellation(queue[i].event.timestamp, r)
    \/ last.op = "RiderRequest" /\ last.rider = r

\* C23: when the run is over, the queue empty or the loop ended by an exception,
\* every rider whose RiderRequest was executed is CANCELLED or SATISFIED and
\* waitingList is empty.  (No run executes a Dropoff: the claim's last part, a
\* rider that was dropped off ends SATISFIED, has no case here.)
C23_RidersLeaveWaiting ==
    queue = <<>> \/ failure # "" =>
        /\ waitingList = <<>>
        /\ \A r \in Riders :
              RiderRequested(r) => riders[r].status \in {CANCELLED, SATISFIED}

\* C24: when the loop executes a Pickup, the event's driver is a driver whose
\* destination is set and is the location of the event's rider; when it executes
\* a Dropoff, the driver's destination is set and is the rider's destination.
C24_EndPreconditions ==
    [][queue # <<>> =>
          LET e == Head(queue).event IN
          /\ e.type = "Pickup" =>
                /\ e.driver \in Drivers /\ e.rider \in Riders
                /\ drivers[e.driver].destination # NoLoc
                /\ drivers[e.driver].destination = riders[e.rider].location
          /\ e.type = "Dropoff" =>
                /\ e.driver \in Drivers /\ e.rider \in Riders
                /\ drivers[e.driver].destination # NoLoc
                /\ drivers[e.driver].destination = riders[e.rider].destination]_vars

====
